---- MODULE Spec2Model ----
(***************************************************************************)
(* Verification model of the news portal's LLM rewriting core:             *)
(*   - RateLimiter, CostTracker and OpenRouterClient.chat with its retry   *)
(*     loop (src/lib/types/openrouter.types.ts);                           *)
(*   - RewriteJobQueue, rewriteNoticia and batchRewrite                    *)
(*     (src/lib/services/content-rewriter.integration.ts);                 *)
(*   - the noticias store and createNoticia (src/unnamed/part_018,         *)
(*     src/unnamed/part_016);                                              *)
(*   - the scraper pipeline, of which only the documentation is in the     *)
(*     source tree;                                                        *)
(*   - supabaseHelpers.incrementViews (src/unnamed/part_018) and the       *)
(*     ProductionCache class.                                              *)
(* Times are milliseconds.  Costs are in units of 10^-8 dollars so that    *)
(* the per-million-token prices stay integers.                             *)
(***************************************************************************)
EXTENDS Integers, Sequences, FiniteSets, TLC

\* ------------------------------------------------------------------ bounds
MaxCalls == 2          \* chat() calls made in one behaviour, concurrent or not
RequestsPerMinute == 1 \* config.rateLimit.requestsPerMinute
RequestsPerDay == 2    \* config.rateLimit.requestsPerDay
MaxRetriesCfg == 2     \* largest explicit config.maxRetries tried
ConfigTimeoutSec == 2  \* config.timeout, in seconds
BootOffsetMin == 1     \* the process starts this many minutes before local midnight
MaxElapsedSec == 66    \* the clock stops this many seconds after process start
MaxJobs == 2           \* rewriteNoticia invocations in one behaviour
MaxRows == 3           \* rows the noticias table may hold
MaxCands == 3          \* candidates one scrape returns
MaxCycles == 2         \* pipeline cycles in one behaviour
RetentionDays == 1     \* the sweeper's retention window, in days
MaxDays == 2           \* days the pipeline's calendar runs
MaxSvcCalls == 2       \* calls of the ContentRewritingService in one behaviour
MaxSvcTicks == 3       \* half hours the service's clock runs
MaxViewCalls == 3      \* incrementViews calls
MaxInitialViews == 1   \* views of the noticia before the calls
PCacheMaxSize == 2     \* ProductionCache.maxSize
MaxPcTicks == 3        \* milliseconds the cache's clock runs
MaxTtl == 2            \* longest ttl passed to set

\* ------------------------------------------------------- program constants
WindowMs == 60000          \* RateLimiter: sliding window
DefaultMaxRetries == 3     \* config.maxRetries || 3
BackoffBaseMs == 1000      \* Math.pow(2, attempt) * 1000
DayMs == 86400000          \* one local date (Date#toDateString changes)

ConfigTimeoutMs == ConfigTimeoutSec * 1000
BootOffsetMs == BootOffsetMin * 60000
MaxElapsed == MaxElapsedSec * 1000

\* The chat() calls, numbered in the order in which they are made.
Callers == 1..MaxCalls

\* The request's model: one from the pricing table, one that is not in it.
ReqModels == {"openai/gpt-4o", "unlisted/model"}

\* response.usage of a successful response; NoUsage when the field is absent.
NoUsage == [prompt_tokens |-> 0, completion_tokens |-> 0, total_tokens |-> 0, present |-> FALSE]
Usages == {NoUsage,
           [prompt_tokens |-> 1000, completion_tokens |-> 500, total_tokens |-> 1500, present |-> TRUE]}

\* What one fetch attempt can end in.
Outcomes == {"ok", "http5xx", "http4xx", "http429", "http402", "timeout", "neterr"}

VARIABLES
  \* --- clock and configuration
  now,               \* Date.now()
  maxRetries,        \* this.config.maxRetries
  \* --- RateLimiter
  requestTimestamps, \* number[]: the times recordRequest() pushed
  dailyRequests,
  lastResetDate,
  \* --- CostTracker
  costs,             \* Map<model, cost>
  tokenUsage,        \* Map<model, tokens>
  \* --- chat() callers
  call,              \* per chat() call: its locals
  hist,              \* per chat() call: what it has done
  callsStarted,      \* chat() calls so far
  \* --- what was really sent to the provider
  sentWindow,        \* start times of the provider requests of the last 60 s
  sentDate,          \* local date of the latest provider request
  sentToday          \* provider requests started on sentDate

chatVars == <<now, maxRetries, requestTimestamps, dailyRequests, lastResetDate,
              costs, tokenUsage, call, hist, callsStarted, sentWindow, sentDate,
              sentToday>>

VARIABLES
  \* --- RewriteJobQueue
  entryKind,         \* per job id: is jobs.get(id) absent, the caller's object, or a copy
  entryCopy,         \* per job id: the copy { ...job } that processJob stored
  processing,        \* RewriteJobQueue.processing
  loopAwaiting,      \* processQueue loops suspended at `await this.processJob(...)`
  \* --- rewriteNoticia invocations
  held,              \* per job id: the job object rewriteNoticia holds
  rpc,               \* per job id: where its rewriteNoticia is
  jobConfig,         \* per job id: the RewriteJobConfig
  jobsCreated,       \* rewriteNoticia invocations so far
  \* --- batchRewrite
  batchPc,           \* where the batchRewrite call is
  batchJobs          \* the job ids batchRewrite passed to Promise.all

jobVars == <<entryKind, entryCopy, processing, loopAwaiting, held, rpc, jobConfig,
             jobsCreated, batchPc, batchJobs>>

VARIABLES
  \* --- the noticias table behind supabaseHelpers
  rows,              \* the table's rows, in insertion order
  lastStatus,        \* HTTP status of the latest POST /api/noticias
  \* --- the scraper pipeline
  stage,             \* the orchestrator's state
  batch,             \* the batch the current stage works on
  articles,          \* the persisted Articles
  calendarDay,       \* the calendar day
  cycles,            \* cycles started so far
  scraped,           \* what the crawler returned in this cycle
  knownAtGate,       \* source URLs persisted when this cycle's Dedup Gate ran
  llmCalls,          \* per source URL: LLM Client calls made for it in this cycle
  rewriteFailed      \* source URLs whose rewrite failed in this cycle

storeVars == <<rows, lastStatus>>

pipeVars == <<stage, batch, articles, calendarDay, cycles, scraped,
              knownAtGate, llmCalls, rewriteFailed>>

VARIABLES
  \* --- ContentRewritingService and the cache it shares
  svc,               \* per service call: its arguments, its position, what it did
  svcStarted,        \* service calls so far
  svcNow,            \* Date.now() of the service's clock
  cacheStore         \* the cache: key -> value and expiry

svcVars == <<svc, svcStarted, svcNow, cacheStore>>

VARIABLES
  \* --- the scraper container's entrypoint
  bootEnv,           \* the environment the container was started with
  bootPc,            \* where entrypoint.sh is
  exitCode,          \* its exit status, once it has exited
  llmExport          \* LLM_REWRITE_ENABLED as the script has exported it

bootVars == <<bootEnv, bootPc, exitCode, llmExport>>

VARIABLES
  \* --- supabaseHelpers.incrementViews on one noticia
  views,             \* the row's views column
  viewsAtStart,      \* views before any incrementViews call
  inc                \* per incrementViews call: where it is, what it read

viewVars == <<views, viewsAtStart, inc>>

VARIABLES
  \* --- ProductionCache
  pcache,            \* this.cache: the entries in the Map's insertion order
  pcNow,             \* Date.now() of the cache's clock
  pcOp               \* the latest operation on the cache

pcVars == <<pcache, pcNow, pcOp>>

vars == <<chatVars, jobVars, storeVars, pipeVars, svcVars, bootVars, viewVars, pcVars>>

\* What the actions of one part leave alone.
notChat == <<jobVars, storeVars, pipeVars, svcVars, bootVars, viewVars, pcVars>>
notJobs == <<chatVars, storeVars, pipeVars, svcVars, bootVars, viewVars, pcVars>>
notStore == <<chatVars, jobVars, pipeVars, svcVars, bootVars, viewVars, pcVars>>
notPipe == <<chatVars, jobVars, storeVars, svcVars, bootVars, viewVars, pcVars>>
notSvc == <<chatVars, jobVars, storeVars, pipeVars, bootVars, viewVars, pcVars>>
notBoot == <<chatVars, jobVars, storeVars, pipeVars, svcVars, viewVars, pcVars>>
notViews == <<chatVars, jobVars, storeVars, pipeVars, svcVars, bootVars, pcVars>>
notPCache == <<chatVars, jobVars, storeVars, pipeVars, svcVars, bootVars, viewVars>>

\* ------------------------------------------------------------ helpers
RECURSIVE Pow2(_)
Pow2(n) == IF n = 0 THEN 1 ELSE 2 * Pow2(n - 1)

SetMin(S) == CHOOSE x \in S : \A y \in S : x <= y

SeqMin(s) == CHOOSE x \in {s[i] : i \in DOMAIN s} : \A j \in DOMAIN s : x <= s[j]

\* new Date().toDateString(): changes exactly when the local date does.
DateString(t) == t \div DayMs

\* ------------------------------------------------------------ RateLimiter
\* RateLimiter.cleanup
cleanup(ts, t) == SelectSeq(ts, LAMBDA x : t - x < WindowMs)

\* A checkLimit that wakes one millisecond before the oldest entry leaves the window.
waitTimeOneShort(ts, t) ==
  LET recentRequests == SelectSeq(ts, LAMBDA x : t - x < WindowMs)
  IN  IF Len(recentRequests) >= RequestsPerMinute
        THEN WindowMs - (t - SeqMin(recentRequests)) - 1
        ELSE 0

\* checkLimit's per-minute test: the wait it sleeps for, 0 when it does not sleep.
waitTime(ts, t) ==
  LET recentRequests == SelectSeq(ts, LAMBDA x : t - x < WindowMs)
  IN  IF Len(recentRequests) >= RequestsPerMinute
        THEN WindowMs - (t - SeqMin(recentRequests))
        ELSE 0

\* checkLimit's per-minute test: does it sleep?
perMinuteSaturated(ts, t) ==
  Len(SelectSeq(ts, LAMBDA x : t - x < WindowMs)) >= RequestsPerMinute

\* checkLimit's oldestRequest = Math.min(...recentRequests)
oldestRequest(ts, t) == SeqMin(SelectSeq(ts, LAMBDA x : t - x < WindowMs))

\* checkLimit's daily test, on the counter after the date reset.
dailyExhausted(n) == n >= RequestsPerDay

\* ------------------------------------------------------------ CostTracker
MODEL_COSTS ==
  [m \in {"anthropic/claude-3.5-sonnet", "openai/gpt-4o", "google/gemini-1.5-pro",
          "meta-llama/llama-4-maverick", "zhipu/glm-4.5",
          "inflection/inflection-3-productivity"} |->
     CASE m = "anthropic/claude-3.5-sonnet" -> [input |-> 300, output |-> 1500]
       [] m = "openai/gpt-4o" -> [input |-> 250, output |-> 1000]
       [] m = "google/gemini-1.5-pro" -> [input |-> 125, output |-> 500]
       [] m = "meta-llama/llama-4-maverick" -> [input |-> 50, output |-> 200]
       [] m = "zhipu/glm-4.5" -> [input |-> 30, output |-> 100]
       [] m = "inflection/inflection-3-productivity" -> [input |-> 40, output |-> 150]]

calculateCost(model, promptTokens, completionTokens) ==
  LET pricing == IF model \in DOMAIN MODEL_COSTS
                   THEN MODEL_COSTS[model]
                   ELSE [input |-> 100, output |-> 300]
  IN  promptTokens * pricing.input + completionTokens * pricing.output

\* A recordUsage that overwrites the model's total instead of adding to it.
GetIgnoringPrevious(map, k) == 0

\* Map#get(model) || 0
GetOr0(map, k) == IF k \in DOMAIN map THEN map[k] ELSE 0

\* A recordUsage that starts a new Map, dropping the other models' totals.
MapSetFresh(map, k, v) == [x \in {k} |-> v]

\* Map#set
MapSet(map, k, v) == [x \in DOMAIN map \cup {k} |-> IF x = k THEN v ELSE map[x]]

\* ------------------------------------------------------- retry decisions
\* The HTTP status of an outcome that is a response.
StatusOf(o) ==
  CASE o = "ok" -> 200
    [] o = "http5xx" -> 500
    [] o = "http4xx" -> 400
    [] o = "http429" -> 429
    [] o = "http402" -> 402
    [] OTHER -> 0

\* fetch() itself rejects: the abort of the timeout, or a network error.
FetchRejects(o) == o \in {"timeout", "neterr"}

\* The 5xx branch inside the try block: sleep and recurse (line 759).
retryInTry(o, att, maxR) ==
  /\ ~FetchRejects(o)
  /\ StatusOf(o) # 200
  /\ StatusOf(o) # 429
  /\ StatusOf(o) # 402
  /\ StatusOf(o) >= 500
  /\ att < maxR

\* The try block ends in a throw, which the catch clause of the same call receives.
throwsInTry(o, att, maxR) ==
  \/ FetchRejects(o)
  \/ /\ StatusOf(o) # 200
     /\ ~retryInTry(o, att, maxR)

\* A catch clause that allows one retry too many.
retryInCatchOffByOne(att, maxR) == att <= maxR

\* The catch clause: sleep and recurse, or rethrow (line 771).
retryInCatch(att, maxR) == att < maxR

\* A retry decision that gives up one attempt early.
retriesOneFewer(o, att, maxR) ==
  \/ retryInTry(o, att + 1, maxR)
  \/ throwsInTry(o, att + 1, maxR) /\ retryInCatch(att + 1, maxR)

\* An attempt that failed is followed by a backoff sleep and another attempt.
retries(o, att, maxR) ==
  \/ retryInTry(o, att, maxR)
  \/ throwsInTry(o, att, maxR) /\ retryInCatch(att, maxR)

\* A backoff that grows by the base delay per attempt instead of doubling.
backoffDelayLinear(att) == (att + 1) * BackoffBaseMs

backoffDelay(att) == Pow2(att) * BackoffBaseMs

\* CostTracker.getTotalCost: the sum of the values of the costs Map.
RECURSIVE sumValues(_, _)
sumValues(map, keys) ==
  IF keys = {} THEN 0
  ELSE LET k == CHOOSE x \in keys : TRUE
       IN  map[k] + sumValues(map, keys \ {k})

getTotalCost(map) == sumValues(map, DOMAIN map)

\* ------------------------------------------------------------------ Init
BootTime == DayMs - BootOffsetMs

\* this.config.maxRetries = config.maxRetries || 3
maxRetriesOf(cfg) == IF cfg = 0 THEN DefaultMaxRetries ELSE cfg

\* A caller with no chat() call under way.
IdleCall == [pc |-> "idle", attempt |-> 1, wakeAt |-> 0, sentAt |-> 0, model |-> "none"]

NoHist == [sent |-> 0, checked |-> FALSE, recorded |-> 0, usage |-> 0, sleeps |-> 0,
           transient |-> TRUE, lastOutcome |-> "none", result |-> "none",
           \* checkLimit() invocations; all failures so far were 5xx responses
           checks |-> 0, only5xx |-> TRUE,
           \* the request.model of every fetch sent; the delays slept before the retries
           payloads |-> {}, delays |-> <<>>,
           \* the model and response.usage that recordUsage was called for
           usageModel |-> "none", usageSeen |-> NoUsage,
           \* the oldestRequest that checkLimit slept on; 0 when it did not sleep
           oldest |-> 0]

InitChat ==
  /\ now = BootTime
  /\ \E cfg \in 0..MaxRetriesCfg : maxRetries = maxRetriesOf(cfg)
  /\ requestTimestamps = <<>>
  /\ dailyRequests = 0
  /\ lastResetDate = DateString(BootTime)
  /\ costs = <<>>
  /\ tokenUsage = <<>>
  /\ call = [c \in Callers |-> IdleCall]
  /\ hist = [c \in Callers |-> NoHist]
  /\ callsStarted = 0
  /\ sentWindow = <<>>
  /\ sentDate = DateString(BootTime)
  /\ sentToday = 0

\* --------------------------------------------------------------- actions
\* The timers that are pending: checkLimit's sleep, the backoff sleep, the abort timer.
PendingTimers ==
  {call[c].wakeAt : c \in {x \in Callers : call[x].pc \in {"limitWait", "backoff"}}}
  \cup {call[c].sentAt + ConfigTimeoutMs : c \in {x \in Callers : call[x].pc = "inflight"}}

\* Time passes, up to the next timer that is due; with no timer pending, up to local
\* midnight or by one window.  A timer fires when it is due.
AdvanceClock ==
  /\ \E t \in IF PendingTimers # {}
                THEN {SetMin(PendingTimers)}
                ELSE {(DateString(now) + 1) * DayMs, now + WindowMs} :
       /\ t > now
       /\ t <= BootTime + MaxElapsed
       /\ now' = t
  /\ UNCHANGED <<maxRetries, requestTimestamps, dailyRequests, lastResetDate,
                 costs, tokenUsage, call, hist, callsStarted, sentWindow,
                 sentDate, sentToday>>
  /\ UNCHANGED notChat

\* A provider request starts now: the record of what was really sent.
NoteSent ==
  /\ sentWindow' = Append(SelectSeq(sentWindow, LAMBDA x : now - x < WindowMs), now)
  /\ sentDate' = DateString(now)
  /\ sentToday' = IF sentDate = DateString(now) THEN sentToday + 1 ELSE 1

\* chat(request) is called: checkLimit() runs up to its sleep, its throw or its return.
ChatStart(c, m) ==
  /\ c = callsStarted + 1
  /\ call[c].pc = "idle"
  /\ callsStarted' = callsStarted + 1
  /\ LET cleaned == cleanup(requestTimestamps, now)
         today == DateString(now)
         daily == IF lastResetDate # today THEN 0 ELSE dailyRequests
     IN  /\ requestTimestamps' = cleaned
         /\ dailyRequests' = daily
         /\ lastResetDate' = today
         /\ IF dailyExhausted(daily)
              THEN \* throw new Error('Daily rate limit exceeded')
                   /\ call' = [call EXCEPT ![c] = IdleCall]
                   /\ hist' = [hist EXCEPT ![c] = [NoHist EXCEPT !.result = "raisedDaily", !.checks = 1]]
              ELSE IF perMinuteSaturated(cleaned, now)
                THEN /\ call' = [call EXCEPT ![c] =
                                   [IdleCall EXCEPT !.pc = "limitWait", !.model = m,
                                                    !.wakeAt = now + waitTime(cleaned, now)]]
                     /\ hist' = [hist EXCEPT ![c] =
                                   [NoHist EXCEPT !.checks = 1,
                                                  !.oldest = oldestRequest(cleaned, now)]]
                ELSE /\ call' = [call EXCEPT ![c] =
                                   [IdleCall EXCEPT !.pc = "checked", !.model = m]]
                     /\ hist' = [hist EXCEPT ![c] = [NoHist EXCEPT !.checked = TRUE, !.checks = 1]]
  /\ UNCHANGED <<now, maxRetries, costs, tokenUsage, sentWindow, sentDate, sentToday>>
  /\ UNCHANGED notChat

\* checkLimit()'s sleep ends and it returns true, without looking again.
LimitWake(c) ==
  /\ call[c].pc = "limitWait"
  /\ now >= call[c].wakeAt
  /\ call' = [call EXCEPT ![c].pc = "checked", ![c].wakeAt = 0]
  /\ hist' = [hist EXCEPT ![c].checked = TRUE]
  /\ UNCHANGED <<now, maxRetries, requestTimestamps, dailyRequests, lastResetDate,
                 costs, tokenUsage, callsStarted, sentWindow, sentDate, sentToday>>
  /\ UNCHANGED notChat

\* makeRequestWithRetry(request) starts: the first fetch is sent.
SendFirst(c) ==
  /\ call[c].pc = "checked"
  /\ call' = [call EXCEPT ![c].pc = "inflight", ![c].sentAt = now]
  /\ hist' = [hist EXCEPT ![c].sent = @ + 1, ![c].payloads = @ \cup {call[c].model}]
  /\ NoteSent
  /\ UNCHANGED <<now, maxRetries, requestTimestamps, dailyRequests, lastResetDate,
                 costs, tokenUsage, callsStarted>>
  /\ UNCHANGED notChat

\* The attempt in flight succeeds: chat() records the request and the usage and returns.
RespondOk(c, u) ==
  /\ call[c].pc = "inflight"
  /\ u \in Usages
  \* this.rateLimiter.recordRequest()
  /\ requestTimestamps' = Append(requestTimestamps, now)
  /\ dailyRequests' = dailyRequests + 1
  \* if (response.usage) recordUsage(model, calculateCost(...), total_tokens)
  /\ IF u.present
       THEN /\ costs' = MapSet(costs, call[c].model,
                               GetOr0(costs, call[c].model)
                               + calculateCost(call[c].model, u.prompt_tokens,
                                               u.completion_tokens))
            /\ tokenUsage' = MapSet(tokenUsage, call[c].model,
                                    GetOr0(tokenUsage, call[c].model) + u.total_tokens)
       ELSE UNCHANGED <<costs, tokenUsage>>
  /\ hist' = [hist EXCEPT ![c].lastOutcome = "ok", ![c].result = "returned",
                          ![c].recorded = @ + 1,
                          ![c].usage = IF u.present THEN @ + 1 ELSE @,
                          ![c].usageModel = IF u.present THEN call[c].model ELSE @,
                          ![c].usageSeen = IF u.present THEN u ELSE @]
  /\ call' = [call EXCEPT ![c] = IdleCall]
  /\ UNCHANGED <<now, maxRetries, lastResetDate, callsStarted, sentWindow,
                 sentDate, sentToday>>
  /\ UNCHANGED notChat

\* A chat() that records the request in a finally block, whether or not it succeeded.
RespondFailRecording(c, o) ==
  /\ call[c].pc = "inflight"
  /\ o \in Outcomes \ {"ok"}
  /\ o = "timeout" => now >= call[c].sentAt + ConfigTimeoutMs
  /\ requestTimestamps' = Append(requestTimestamps, now)
  /\ dailyRequests' = dailyRequests + 1
  /\ IF retries(o, call[c].attempt, maxRetries)
       THEN /\ call' = [call EXCEPT ![c].pc = "backoff", ![c].sentAt = 0,
                                    ![c].wakeAt = now + backoffDelay(call[c].attempt)]
            /\ hist' = [hist EXCEPT ![c].lastOutcome = o,
                                    ![c].transient = @ /\ o \in {"http5xx", "timeout"},
                                    ![c].only5xx = @ /\ o = "http5xx",
                                    ![c].delays = Append(@, backoffDelay(call[c].attempt)),
                                    ![c].sleeps = @ + 1]
       ELSE /\ call' = [call EXCEPT ![c] = IdleCall]
            /\ hist' = [hist EXCEPT ![c].lastOutcome = o,
                                    ![c].transient = @ /\ o \in {"http5xx", "timeout"},
                                    ![c].only5xx = @ /\ o = "http5xx",
                                    ![c].recorded = @ + 1,
                                    ![c].result = "raised"]
  /\ UNCHANGED <<now, maxRetries, lastResetDate, costs, tokenUsage, callsStarted,
                 sentWindow, sentDate, sentToday>>
  /\ UNCHANGED notChat

\* The attempt in flight fails with outcome o: backoff sleep, or the error leaves chat().
RespondFail(c, o) ==
  /\ call[c].pc = "inflight"
  /\ o \in Outcomes \ {"ok"}
  /\ o = "timeout" => now >= call[c].sentAt + ConfigTimeoutMs
  /\ IF retries(o, call[c].attempt, maxRetries)
       THEN /\ call' = [call EXCEPT ![c].pc = "backoff", ![c].sentAt = 0,
                                    ![c].wakeAt = now + backoffDelay(call[c].attempt)]
            /\ hist' = [hist EXCEPT ![c].lastOutcome = o,
                                    ![c].transient = @ /\ o \in {"http5xx", "timeout"},
                                    ![c].only5xx = @ /\ o = "http5xx",
                                    ![c].delays = Append(@, backoffDelay(call[c].attempt)),
                                    ![c].sleeps = @ + 1]
       ELSE /\ call' = [call EXCEPT ![c] = IdleCall]
            /\ hist' = [hist EXCEPT ![c].lastOutcome = o,
                                    ![c].transient = @ /\ o \in {"http5xx", "timeout"},
                                    ![c].only5xx = @ /\ o = "http5xx",
                                    ![c].result = "raised"]
  /\ UNCHANGED <<now, maxRetries, requestTimestamps, dailyRequests, lastResetDate,
                 costs, tokenUsage, callsStarted, sentWindow, sentDate, sentToday>>
  /\ UNCHANGED notChat

\* A retry that goes through checkLimit() again before it sends.
BackoffWakeRechecking(c) ==
  /\ call[c].pc = "backoff"
  /\ now >= call[c].wakeAt
  /\ call' = [call EXCEPT ![c].pc = "inflight", ![c].attempt = @ + 1,
                          ![c].wakeAt = 0, ![c].sentAt = now]
  /\ hist' = [hist EXCEPT ![c].sent = @ + 1, ![c].lastOutcome = "none",
                          ![c].checks = @ + 1,
                          ![c].payloads = @ \cup {call[c].model}]
  /\ NoteSent
  /\ UNCHANGED <<now, maxRetries, requestTimestamps, dailyRequests, lastResetDate,
                 costs, tokenUsage, callsStarted>>
  /\ UNCHANGED notChat

\* The backoff sleep ends: makeRequestWithRetry(request, attempt + 1) sends again.
BackoffWake(c) ==
  /\ call[c].pc = "backoff"
  /\ now >= call[c].wakeAt
  /\ call' = [call EXCEPT ![c].pc = "inflight", ![c].attempt = @ + 1,
                          ![c].wakeAt = 0, ![c].sentAt = now]
  /\ hist' = [hist EXCEPT ![c].sent = @ + 1, ![c].lastOutcome = "none",
                          ![c].payloads = @ \cup {call[c].model}]
  /\ NoteSent
  /\ UNCHANGED <<now, maxRetries, requestTimestamps, dailyRequests, lastResetDate,
                 costs, tokenUsage, callsStarted>>
  /\ UNCHANGED notChat

NextChat ==
  \/ AdvanceClock
  \/ \E c \in Callers, m \in ReqModels : ChatStart(c, m)
  \/ \E c \in Callers : LimitWake(c)
  \/ \E c \in Callers : SendFirst(c)
  \/ \E c \in Callers, u \in Usages : RespondOk(c, u)
  \/ \E c \in Callers, o \in Outcomes : RespondFail(c, o)
  \/ \E c \in Callers : BackoffWake(c)

\* =========================================== RewriteJobQueue, rewriteNoticia
JobIds == 1..MaxJobs

\* A RewriteJob object: the fields the lifecycle is about.
NewJob == [status |-> "pending", hasResult |-> FALSE, hasError |-> FALSE,
           hasCompletedAt |-> FALSE]

NoConfig == [updateOriginal |-> FALSE, generateNewHeadline |-> FALSE, inBatch |-> FALSE]

JobsAtRest ==
  /\ entryKind = [j \in JobIds |-> "absent"]
  /\ entryCopy = [j \in JobIds |-> NewJob]
  /\ processing = FALSE
  /\ loopAwaiting = 0
  /\ held = [j \in JobIds |-> NewJob]
  /\ rpc = [j \in JobIds |-> "notCalled"]
  /\ jobConfig = [j \in JobIds |-> NoConfig]
  /\ jobsCreated = 0
  /\ batchPc = "notCalled"
  /\ batchJobs = {}

\* this.jobs.get(id), given the held objects h, the kinds k and the copies cp.
getJob(h, k, cp, j) == IF k[j] = "ref" THEN h[j] ELSE cp[j]

\* A queue loop that picks up every job that has not completed.
PendingIdsNotCompleted(h, k, cp) ==
  {j \in JobIds : k[j] # "absent" /\ getJob(h, k, cp, j).status # "completed"}

\* Array.from(this.jobs.values()).find(job => job.status === 'pending'): the Map
\* iterates in insertion order, which is the order of the job ids.
PendingIds(h, k, cp) ==
  {j \in JobIds : k[j] # "absent" /\ getJob(h, k, cp, j).status = "pending"}

\* processQueue from the top of its while loop up to its next await or its exit,
\* as a record of the state it leaves.
loopRun(h, k, cp) ==
  LET pend == PendingIds(h, k, cp)
  IN  IF pend = {}
        THEN \* break; this.processing = false
             [held |-> h, kind |-> k, copy |-> cp, processing |-> FALSE, awaiting |-> FALSE]
        ELSE \* processJob(pendingJob): job.status = 'processing'; jobs.set(id, { ...job })
             LET p == SetMin(pend)
                 obj == [getJob(h, k, cp, p) EXCEPT !.status = "processing"]
             IN  [held |-> IF k[p] = "ref" THEN [h EXCEPT ![p] = obj] ELSE h,
                  kind |-> [k EXCEPT ![p] = "copy"],
                  copy |-> [cp EXCEPT ![p] = obj],
                  processing |-> TRUE, awaiting |-> TRUE]

\* processQueue() entered with aw loops suspended: the state its loop leaves.
startLoop(h, k, cp, aw) ==
  LET r == loopRun(h, k, cp)
  IN  [held |-> r.held, kind |-> r.kind, copy |-> r.copy, processing |-> r.processing,
       awaiting |-> IF r.awaiting THEN aw + 1 ELSE aw]

\* An addJob whose processQueue() does not look at the processing flag.
addJobIgnoringFlag(h, k, cp, proc, aw, j) ==
  startLoop(h, [k EXCEPT ![j] = "ref"], cp, aw)

\* addJob(job): jobs.set(job.id, job), then processQueue() up to its first await.
addJob(h, k, cp, proc, aw, j) ==
  LET k1 == [k EXCEPT ![j] = "ref"]
  IN  IF proc
        THEN \* if (this.processing) return
             [held |-> h, kind |-> k1, copy |-> cp, processing |-> proc, awaiting |-> aw]
        ELSE startLoop(h, k1, cp, aw)

\* The same state with job j's held object replaced by obj and then addJob(job).
AddHeld(j, obj) ==
  LET r == addJob([held EXCEPT ![j] = obj], entryKind, entryCopy, processing,
                  loopAwaiting, j)
  IN  /\ held' = r.held
      /\ entryKind' = r.kind
      /\ entryCopy' = r.copy
      /\ processing' = r.processing
      /\ loopAwaiting' = r.awaiting

\* A catch clause that stores the job again and rethrows without marking it failed.
FailJobLeavingStatus(j) ==
  /\ AddHeld(j, held[j])
  /\ rpc' = [rpc EXCEPT ![j] = "raised"]

\* The catch clause of rewriteNoticia: the job fails, is stored again, the error is rethrown.
FailJob(j) ==
  /\ AddHeld(j, [held[j] EXCEPT !.status = "failed", !.hasError = TRUE,
                                !.hasCompletedAt = TRUE])
  /\ rpc' = [rpc EXCEPT ![j] = "raised"]

\* The end of the try block: the job completes, is stored again and returned.
CompleteJob(j, obj) ==
  /\ AddHeld(j, [obj EXCEPT !.status = "completed", !.hasCompletedAt = TRUE])
  /\ rpc' = [rpc EXCEPT ![j] = "returned"]

\* Lines 189-212: job.result is set; then the update of the original, or completion.
SetResultThen(j) ==
  LET obj == [held[j] EXCEPT !.hasResult = TRUE]
  IN  IF jobConfig[j].updateOriginal
        THEN /\ held' = [held EXCEPT ![j] = obj]
             /\ rpc' = [rpc EXCEPT ![j] = "updating"]
             /\ UNCHANGED <<entryKind, entryCopy, processing, loopAwaiting>>
        ELSE CompleteJob(j, obj)

\* rewriteNoticia(config) is called: the job is created and added; then it awaits the fetch.
RewriteStart(j, upd, head) ==
  /\ j = jobsCreated + 1
  /\ j \in JobIds
  /\ jobsCreated' = j
  /\ jobConfig' = [jobConfig EXCEPT ![j] = [updateOriginal |-> upd,
                                            generateNewHeadline |-> head,
                                            inBatch |-> FALSE]]
  /\ AddHeld(j, NewJob)
  /\ rpc' = [rpc EXCEPT ![j] = "fetching"]
  /\ UNCHANGED <<batchPc, batchJobs>>
  /\ UNCHANGED notJobs

\* processQueue resumes after `await this.processJob(...)`.
QueueLoopResume ==
  /\ loopAwaiting > 0
  /\ LET r == startLoop(held, entryKind, entryCopy, loopAwaiting - 1)
     IN  /\ held' = r.held
         /\ entryKind' = r.kind
         /\ entryCopy' = r.copy
         /\ processing' = r.processing
         /\ loopAwaiting' = r.awaiting
  /\ UNCHANGED <<rpc, jobConfig, jobsCreated, batchPc, batchJobs>>
  /\ UNCHANGED notJobs

\* noticiaService.getNoticiaById answers: the noticia, null, or an error.
FetchDone(j, found) ==
  /\ rpc[j] = "fetching"
  /\ IF found
       THEN \* job.status = 'processing'; rewriteNewsArticle(...) is called
            /\ held' = [held EXCEPT ![j].status = "processing"]
            /\ rpc' = [rpc EXCEPT ![j] = "rewriting"]
            /\ UNCHANGED <<entryKind, entryCopy, processing, loopAwaiting>>
       ELSE FailJob(j)
  /\ UNCHANGED <<jobConfig, jobsCreated, batchPc, batchJobs>>
  /\ UNCHANGED notJobs

\* rewriteNewsArticle returns its result or raises.
RewriteDone(j, ok) ==
  /\ rpc[j] = "rewriting"
  /\ IF ~ok
       THEN FailJob(j)
       ELSE IF jobConfig[j].generateNewHeadline
         THEN /\ rpc' = [rpc EXCEPT ![j] = "headline"]
              /\ UNCHANGED <<held, entryKind, entryCopy, processing, loopAwaiting>>
         ELSE SetResultThen(j)
  /\ UNCHANGED <<jobConfig, jobsCreated, batchPc, batchJobs>>
  /\ UNCHANGED notJobs

\* generateHeadline returns or raises.
HeadlineDone(j, ok) ==
  /\ rpc[j] = "headline"
  /\ IF ok THEN SetResultThen(j) ELSE FailJob(j)
  /\ UNCHANGED <<jobConfig, jobsCreated, batchPc, batchJobs>>
  /\ UNCHANGED notJobs

\* noticiaService.updateNoticia returns or raises.
UpdateDone(j, ok) ==
  /\ rpc[j] = "updating"
  /\ IF ok THEN CompleteJob(j, held[j]) ELSE FailJob(j)
  /\ UNCHANGED <<jobConfig, jobsCreated, batchPc, batchJobs>>
  /\ UNCHANGED notJobs

\* batchRewrite(config) is called and awaits getNoticiasByCategory.
BatchStart ==
  /\ batchPc = "notCalled"
  /\ batchPc' = "listing"
  /\ UNCHANGED <<entryKind, entryCopy, processing, loopAwaiting, held, rpc,
                 jobConfig, jobsCreated, batchJobs>>
  /\ UNCHANGED notJobs

\* rewriteNoticia called for the ids in js, lowest first, each up to its first await.
RECURSIVE startAll(_, _, _, _, _, _)
startAll(js, h, k, cp, proc, aw) ==
  IF js = {}
    THEN [held |-> h, kind |-> k, copy |-> cp, processing |-> proc, awaiting |-> aw]
    ELSE LET j == SetMin(js)
             r == addJob([h EXCEPT ![j] = NewJob], k, cp, proc, aw, j)
         IN  startAll(js \ {j}, r.held, r.kind, r.copy, r.processing, r.awaiting)

\* getNoticiasByCategory raises: batchRewrite raises before any job exists.
BatchListFails ==
  /\ batchPc = "listing"
  /\ batchPc' = "listFailed"
  /\ UNCHANGED <<entryKind, entryCopy, processing, loopAwaiting, held, rpc,
                 jobConfig, jobsCreated, batchJobs>>
  /\ UNCHANGED notJobs

\* getNoticiasByCategory answers n noticias: the for loop calls rewriteNoticia for
\* each of them and batchRewrite awaits Promise.all(jobs).
BatchListed(n) ==
  /\ batchPc = "listing"
  /\ n \in 0..MaxJobs
  /\ jobsCreated + n <= MaxJobs
  /\ LET js == (jobsCreated + 1)..(jobsCreated + n)
         r == startAll(js, held, entryKind, entryCopy, processing, loopAwaiting)
     IN  /\ held' = r.held
         /\ entryKind' = r.kind
         /\ entryCopy' = r.copy
         /\ processing' = r.processing
         /\ loopAwaiting' = r.awaiting
         /\ rpc' = [j \in JobIds |-> IF j \in js THEN "fetching" ELSE rpc[j]]
         /\ jobConfig' = [j \in JobIds |->
                            IF j \in js
                              THEN [updateOriginal |-> FALSE,
                                    generateNewHeadline |-> FALSE, inBatch |-> TRUE]
                              ELSE jobConfig[j]]
         /\ batchJobs' = js
         /\ jobsCreated' = jobsCreated + n
  /\ batchPc' = "waiting"
  /\ UNCHANGED notJobs

\* Promise.all(jobs) settles: it rejects as soon as one job's promise rejects.
promiseAllRejects(js) == \E j \in js : rpc[j] = "raised"

promiseAllFulfils(js) == \A j \in js : rpc[j] = "returned"

BatchSettle ==
  /\ batchPc = "waiting"
  /\ \/ promiseAllRejects(batchJobs) /\ batchPc' = "rejected"
     \/ promiseAllFulfils(batchJobs) /\ batchPc' = "returned"
  /\ UNCHANGED <<entryKind, entryCopy, processing, loopAwaiting, held, rpc,
                 jobConfig, jobsCreated, batchJobs>>
  /\ UNCHANGED notJobs

NextJobs ==
  \/ \E j \in JobIds, upd \in BOOLEAN, head \in BOOLEAN : RewriteStart(j, upd, head)
  \/ QueueLoopResume
  \/ \E j \in JobIds, found \in BOOLEAN : FetchDone(j, found)
  \/ \E j \in JobIds, ok \in BOOLEAN : RewriteDone(j, ok)
  \/ \E j \in JobIds, ok \in BOOLEAN : HeadlineDone(j, ok)
  \/ \E j \in JobIds, ok \in BOOLEAN : UpdateDone(j, ok)
  \/ BatchStart
  \/ BatchListFails
  \/ \E n \in 0..MaxJobs : BatchListed(n)
  \/ BatchSettle

\* ========================================== the noticias table, createNoticia
\* Titles a POST may carry; two of them differ only in case and accents.
Titles == {"Dolar Hoy", "dolar hoy", "Paro general", "Elecciones 2025"}

\* body.source_url, "" when the field is missing.
SourceUrls == {"", "https://site/a", "https://site/b"}

\* POST /api/noticias: the slug generated from the title (lower case, accents
\* stripped, runs of other characters to '-', trimmed).
slugOf(title) ==
  CASE title = "Dolar Hoy" -> "dolar-hoy"
    [] title = "dolar hoy" -> "dolar-hoy"
    [] title = "Paro general" -> "paro-general"
    [] title = "Elecciones 2025" -> "elecciones-2025"

\* body.source_url || null
sourceUrlOf(u) == IF u = "" THEN "null" ELSE u

StoreAtRest ==
  /\ rows = <<>>
  /\ lastStatus = 0

\* The constraints of the noticias table an INSERT must meet: slug is UNIQUE;
\* source_url is a plain TEXT column with a non-unique index.
insertAllowed(rs, row) == \A i \in DOMAIN rs : rs[i].slug # row.slug

\* supabaseHelpers.createNoticia: one INSERT, which the table accepts or refuses.
createNoticia(rs, row) == IF insertAllowed(rs, row) THEN Append(rs, row) ELSE rs

\* POST /api/noticias with a body that has all required fields or lacks one.
PostNoticia(title, u, complete) ==
  /\ Len(rows) < MaxRows
  /\ IF ~complete
       THEN /\ lastStatus' = 400
            /\ rows' = rows
       ELSE LET row == [slug |-> slugOf(title), source_url |-> sourceUrlOf(u), views |-> 0]
            IN  /\ rows' = createNoticia(rows, row)
                /\ lastStatus' = IF insertAllowed(rows, row) THEN 201 ELSE 500
  /\ UNCHANGED notStore

\* supabaseHelpers.deleteNoticia(id)
DeleteNoticia(i) ==
  /\ i \in DOMAIN rows
  /\ rows' = [k \in 1..(Len(rows) - 1) |-> IF k < i THEN rows[k] ELSE rows[k + 1]]
  /\ lastStatus' = lastStatus
  /\ UNCHANGED notStore

NextStore ==
  \/ \E t \in Titles, u \in SourceUrls, complete \in BOOLEAN : PostNoticia(t, u, complete)
  \/ \E i \in 1..MaxRows : DeleteNoticia(i)

\* ============================================ supabaseHelpers.incrementViews
ViewCallers == 1..MaxViewCalls

\* An incrementViews call that has not been made.
NoInc == [pc |-> "idle", currentViews |-> 0]

\* The noticia with v views and no incrementViews call made.
ViewsFrom(v) ==
  /\ views = v
  /\ viewsAtStart = v
  /\ inc = [c \in ViewCallers |-> NoInc]

ViewsAtRest == ViewsFrom(0)

\* increment_views(noticia_id): UPDATE noticias SET views = views + 1, one statement.
increment_views(v) == v + 1

\* incrementViews(id) is called and supabase.rpc('increment_views') answers: done,
\* or an error and then the fallback's select is sent.
IncrementViews(c, rpcOk) ==
  /\ inc[c].pc = "idle"
  /\ IF rpcOk
       THEN /\ views' = increment_views(views)
            /\ inc' = [inc EXCEPT ![c].pc = "success"]
       ELSE /\ views' = views
            /\ inc' = [inc EXCEPT ![c].pc = "selecting"]
  /\ UNCHANGED viewsAtStart
  /\ UNCHANGED notViews

\* The fallback's select('views') answers: currentViews = current?.views || 0.
SelectViews(c, ok) ==
  /\ inc[c].pc = "selecting"
  /\ inc' = [inc EXCEPT ![c].pc = "updating",
                        ![c].currentViews = IF ok THEN views ELSE 0]
  /\ UNCHANGED <<views, viewsAtStart>>
  /\ UNCHANGED notViews

\* The fallback's update({ views: currentViews + 1 }) answers; its result is returned.
UpdateViews(c, ok) ==
  /\ inc[c].pc = "updating"
  /\ IF ok
       THEN /\ views' = inc[c].currentViews + 1
            /\ inc' = [inc EXCEPT ![c].pc = "success"]
       ELSE /\ views' = views
            /\ inc' = [inc EXCEPT ![c].pc = "error"]
  /\ UNCHANGED viewsAtStart
  /\ UNCHANGED notViews

NextViews ==
  \/ \E c \in ViewCallers, rpcOk \in BOOLEAN : IncrementViews(c, rpcOk)
  \/ \E c \in ViewCallers, ok \in BOOLEAN : SelectViews(c, ok)
  \/ \E c \in ViewCallers, ok \in BOOLEAN : UpdateViews(c, ok)

\* ========================================================= ProductionCache
\* Cache keys; the empty string is one of them.
PcKeys == {"", "a", "b"}

NoPcOp == [op |-> "none", key |-> "none"]

PCacheAtRest ==
  /\ pcache = <<>>
  /\ pcNow = 0
  /\ pcOp = NoPcOp

\* The keys of the Map.
pcKeys(c) == {c[i].key : i \in DOMAIN c}

\* Map.delete(key)
pcDelete(c, key) == SelectSeq(c, LAMBDA e : e.key # key)

\* evictLRU's loop: the first entry, in insertion order, of the least lastAccess.
oldestKey(c) ==
  c[CHOOSE i \in DOMAIN c :
      /\ \A j \in DOMAIN c : c[j].lastAccess >= c[i].lastAccess
      /\ \A j \in 1..(i - 1) : c[j].lastAccess > c[i].lastAccess].key

\* evictLRU(): `if (oldestKey)` is false for no key and for the empty key.
evictLRU(c) ==
  IF c = <<>> \/ oldestKey(c) = "" THEN c ELSE pcDelete(c, oldestKey(c))

\* set(key, value, ttl) at time t.
pcSet(c, key, ttl, t) ==
  LET c1 == IF Len(c) >= PCacheMaxSize THEN evictLRU(c) ELSE c
      entry == [key |-> key, expiry |-> t + ttl, lastAccess |-> t]
  IN  IF key \in pcKeys(c1)
        THEN [i \in DOMAIN c1 |-> IF c1[i].key = key THEN entry ELSE c1[i]]
        ELSE Append(c1, entry)

\* The Map after get(key) at time t.
pcGet(c, key, t) ==
  IF key \notin pcKeys(c)
    THEN c
    ELSE LET e == c[CHOOSE i \in DOMAIN c : c[i].key = key]
         IN  IF t > e.expiry
               THEN pcDelete(c, key)
               ELSE [i \in DOMAIN c |->
                       IF c[i].key = key THEN [c[i] EXCEPT !.lastAccess = t] ELSE c[i]]

\* cleanup() at time t.
pcCleanup(c, t) == SelectSeq(c, LAMBDA e : ~(t > e.expiry))

PcSet(key, ttl) ==
  /\ ttl \in 1..MaxTtl
  /\ pcache' = pcSet(pcache, key, ttl, pcNow)
  /\ pcOp' = [op |-> "set", key |-> key]
  /\ UNCHANGED pcNow
  /\ UNCHANGED notPCache

PcGet(key) ==
  /\ key \in PcKeys
  /\ pcache' = pcGet(pcache, key, pcNow)
  /\ pcOp' = [op |-> "get", key |-> key]
  /\ UNCHANGED pcNow
  /\ UNCHANGED notPCache

PcDelete(key) ==
  /\ key \in PcKeys
  /\ pcache' = pcDelete(pcache, key)
  /\ pcOp' = [op |-> "delete", key |-> key]
  /\ UNCHANGED pcNow
  /\ UNCHANGED notPCache

PcClear ==
  /\ pcache' = <<>>
  /\ pcOp' = [op |-> "clear", key |-> "none"]
  /\ UNCHANGED pcNow
  /\ UNCHANGED notPCache

\* The five-minute timer's cleanup(), or a caller's.
PcCleanup ==
  /\ pcache' = pcCleanup(pcache, pcNow)
  /\ pcOp' = [op |-> "cleanup", key |-> "none"]
  /\ UNCHANGED pcNow
  /\ UNCHANGED notPCache

\* A millisecond passes.
PcTick ==
  /\ pcNow < MaxPcTicks
  /\ pcNow' = pcNow + 1
  /\ pcOp' = [op |-> "tick", key |-> "none"]
  /\ UNCHANGED pcache
  /\ UNCHANGED notPCache

NextPCache ==
  \/ \E key \in PcKeys, ttl \in 1..MaxTtl : PcSet(key, ttl)
  \/ \E key \in PcKeys : PcGet(key)
  \/ \E key \in PcKeys : PcDelete(key)
  \/ PcClear
  \/ PcCleanup
  \/ PcTick

\* ===================================================== the scraper pipeline
\* Only the documentation of the scraper is in the source tree; the stages are
\* modelled from the design: scraping, deduping, rewriting, imaging, uploading,
\* sweeping, each on the batch the stage before it produced.
CandUrls == {"https://site/a", "https://site/b"}

\* A RawCandidate: its source URL and whether its image will validate.
Candidates == [url : CandUrls, imageOk : BOOLEAN]

RECURSIVE SeqsUpTo(_, _)
SeqsUpTo(S, n) ==
  IF n = 0 THEN {<<>>}
  ELSE LET shorter == SeqsUpTo(S, n - 1)
       IN  shorter \cup {Append(q, x) : q \in {r \in shorter : Len(r) = n - 1}, x \in S}

PipeAtRest ==
  /\ stage = "idle"
  /\ batch = <<>>
  /\ articles = {}
  /\ calendarDay = 0
  /\ cycles = 0
  /\ scraped = <<>>
  /\ knownAtGate = {}
  /\ llmCalls = [u \in CandUrls |-> 0]
  /\ rewriteFailed = {}

PersistedUrls(as) == {a.url : a \in as}

\* A Dedup Gate that looks at the persisted Articles only.
isDuplicatePersistedOnly(url, as, seen) == url \in PersistedUrls(as)

\* Dedup Gate: isDuplicate(candidate).  The source URL is looked up among the
\* persisted Articles and among the URLs the gate has let through earlier in the batch.
isDuplicate(url, as, seen) == url \in PersistedUrls(as) \cup seen

\* The Dedup Gate over a batch, first candidate first: the survivors.
RECURSIVE dedupBatch(_, _, _)
dedupBatch(b, as, seen) ==
  IF b = <<>>
    THEN <<>>
    ELSE IF isDuplicate(Head(b).url, as, seen)
      THEN dedupBatch(Tail(b), as, seen)
      ELSE <<Head(b)>> \o dedupBatch(Tail(b), as, seen \cup {Head(b).url})

\* How many elements of the sequence b have source URL u.
CountUrl(b, u) == Cardinality({i \in DOMAIN b : b[i].url = u})

\* The sequence b, whose first element has position k, without the positions in drop.
RECURSIVE withoutPositions(_, _, _)
withoutPositions(b, drop, k) ==
  IF b = <<>> THEN <<>>
  ELSE IF k \in drop
    THEN withoutPositions(Tail(b), drop, k + 1)
    ELSE <<Head(b)>> \o withoutPositions(Tail(b), drop, k + 1)

\* Storage Uploader: upsertArticle, idempotent on the source URL.
upsertArticle(as, art) == IF art.url \in PersistedUrls(as) THEN as ELSE as \cup {art}

RECURSIVE uploadBatch(_, _)
uploadBatch(b, as) ==
  IF b = <<>> THEN as ELSE uploadBatch(Tail(b), upsertArticle(as, Head(b)))

\* A Retention Sweeper that deletes nothing.
sweepKeepingAll(as, day) == as

\* Retention Sweeper: sweep(retentionDays).
sweep(as, day) == {a \in as : day - a.published <= RetentionDays}

\* An orchestrator whose interval timer starts a cycle whatever the stage.
cycleMayStartWhileRunning(st) == st \in {"idle", "scraping", "deduping", "rewriting",
                                         "imaging", "uploading", "sweeping"}

\* Orchestrator: a new cycle does not start until the prior one fully completes.
cycleMayStart(st) == st = "idle"

\* Orchestrator: the state that follows st in idle -> scraping -> deduping ->
\* rewriting -> imaging -> uploading -> sweeping -> idle.
nextStage(st) ==
  CASE st = "idle" -> "scraping"
    [] st = "scraping" -> "deduping"
    [] st = "deduping" -> "rewriting"
    [] st = "rewriting" -> "imaging"
    [] st = "imaging" -> "uploading"
    [] st = "uploading" -> "sweeping"
    [] st = "sweeping" -> "idle"

\* The orchestrator starts a cycle.
StartCycle ==
  /\ cycleMayStart(stage)
  /\ cycles < MaxCycles
  /\ cycles' = cycles + 1
  /\ stage' = nextStage("idle")
  /\ batch' = <<>>
  /\ scraped' = <<>>
  /\ knownAtGate' = {}
  /\ llmCalls' = [u \in CandUrls |-> 0]
  /\ rewriteFailed' = {}
  /\ UNCHANGED <<articles, calendarDay>>
  /\ UNCHANGED notPipe

\* The crawler returns this cycle's candidates.
Scrape(out) ==
  /\ stage = "scraping"
  /\ out \in SeqsUpTo(Candidates, MaxCands)
  /\ batch' = out
  /\ scraped' = out
  /\ stage' = nextStage(stage)
  /\ UNCHANGED <<articles, calendarDay, cycles, knownAtGate, llmCalls, rewriteFailed>>
  /\ UNCHANGED notPipe

\* The Dedup Gate drops the duplicates of the batch.
Dedup ==
  /\ stage = "deduping"
  /\ batch' = dedupBatch(batch, articles, {})
  /\ knownAtGate' = PersistedUrls(articles)
  /\ stage' = nextStage(stage)
  /\ UNCHANGED <<articles, calendarDay, cycles, scraped, llmCalls, rewriteFailed>>
  /\ UNCHANGED notPipe

\* The Rewriting Service is called once for every candidate of the batch; the
\* candidates at the positions in failed are dropped because their rewrite failed.
Rewrite(failed) ==
  /\ stage = "rewriting"
  /\ failed \subseteq DOMAIN batch
  /\ llmCalls' = [u \in CandUrls |-> llmCalls[u] + CountUrl(batch, u)]
  /\ rewriteFailed' = {batch[i].url : i \in failed}
  /\ batch' = withoutPositions(batch, failed, 1)
  /\ stage' = nextStage(stage)
  /\ UNCHANGED <<articles, calendarDay, cycles, scraped, knownAtGate>>
  /\ UNCHANGED notPipe

\* Image Processor: process(imageUrl), null on any validation failure.
process(cand) == IF cand.imageOk THEN "processed" ELSE "null"

\* The Article of a candidate: the processed image, or the placeholder for null.
articleOf(cand, day) ==
  [url |-> cand.url,
   image |-> IF process(cand) = "null" THEN "placeholder" ELSE process(cand),
   published |-> day]

\* An imaging stage that drops the candidates whose image did not validate.
RECURSIVE withImagesDroppingFailed(_, _)
withImagesDroppingFailed(b, day) ==
  IF b = <<>> THEN <<>>
  ELSE IF process(Head(b)) = "null"
    THEN withImagesDroppingFailed(Tail(b), day)
    ELSE <<articleOf(Head(b), day)>> \o withImagesDroppingFailed(Tail(b), day)

\* The imaging stage over a batch: every candidate goes on, with its image reference.
withImages(b, day) == [i \in DOMAIN b |-> articleOf(b[i], day)]

\* The Image Processor: a processed image, or null and then the placeholder.
Imaging ==
  /\ stage = "imaging"
  /\ batch' = withImages(batch, calendarDay)
  /\ stage' = nextStage(stage)
  /\ UNCHANGED <<articles, calendarDay, cycles, scraped, knownAtGate, llmCalls, rewriteFailed>>
  /\ UNCHANGED notPipe

\* The Storage Uploader upserts the batch.
Upload ==
  /\ stage = "uploading"
  /\ articles' = uploadBatch(batch, articles)
  /\ batch' = <<>>
  /\ stage' = nextStage(stage)
  /\ UNCHANGED <<calendarDay, cycles, scraped, knownAtGate, llmCalls, rewriteFailed>>
  /\ UNCHANGED notPipe

\* The Retention Sweeper ends the cycle.
Sweep ==
  /\ stage = "sweeping"
  /\ articles' = sweep(articles, calendarDay)
  /\ stage' = nextStage(stage)
  /\ UNCHANGED <<batch, calendarDay, cycles, scraped, knownAtGate, llmCalls, rewriteFailed>>
  /\ UNCHANGED notPipe

\* A day passes during the interval sleep between two cycles.
DayPasses ==
  /\ stage = "idle"
  /\ calendarDay < MaxDays
  /\ calendarDay' = calendarDay + 1
  /\ UNCHANGED <<stage, batch, articles, cycles, scraped, knownAtGate, llmCalls, rewriteFailed>>
  /\ UNCHANGED notPipe

NextPipe ==
  \/ StartCycle
  \/ \E out \in SeqsUpTo(Candidates, MaxCands) : Scrape(out)
  \/ Dedup
  \/ \E failed \in SUBSET (1..MaxCands) : Rewrite(failed)
  \/ Imaging
  \/ Upload
  \/ Sweep
  \/ DayPasses

\* ============================================== ContentRewritingService
\* Texts are sequences of character codes.  Two of the (title, content) pairs
\* concatenate to the same text.
SvcTitles == {<<97>>, <<97, 98>>}
SvcContents == {<<98, 99>>, <<99>>}
TargetLengths == {100, 150}

CacheTtlMs == 3600000      \* cache.set(cacheKey, result, 3600000)
HalfTtlMs == CacheTtlMs \div 2

SvcIds == 1..MaxSvcCalls

\* hashString: hash = (hash << 5) - hash + char for every character, from 0.  The
\* texts above are too short for the 32-bit wrap of `hash & hash` to occur.
RECURSIVE hashFrom(_, _)
hashFrom(hash, str) ==
  IF str = <<>> THEN hash
  ELSE hashFrom((hash * 32) - hash + Head(str), Tail(str))

hashString(str) == hashFrom(0, str)

\* `rewrite:${hashString(title + content)}`
rewriteKey(title, content) ==
  [prefix |-> "rewrite", hash |-> hashString(title \o content), targetLength |-> 0]

\* `summary:${hashString(content)}:${targetLength}`
summaryKey(content, targetLength) ==
  [prefix |-> "summary", hash |-> hashString(content), targetLength |-> targetLength]

\* What the model can reply to a headline request.
HeadlineReplies == {"{\"headline\":\"H\",\"subtitle\":\"S\"}", "{\"headline\":\"H\"}",
                    "Titular: H"}

\* What the model can reply to a rewrite or summarize request.
TextReplies == {" Texto. ", "  "}

\* JSON.parse accepts the reply.
isValidJson(reply) ==
  reply \in {"{\"headline\":\"H\",\"subtitle\":\"S\"}", "{\"headline\":\"H\"}"}

\* JSON.parse(reply) of a reply it accepts.
jsonParse(reply) ==
  CASE reply = "{\"headline\":\"H\",\"subtitle\":\"S\"}" -> [headline |-> "H", subtitle |-> "S"]
    [] reply = "{\"headline\":\"H\"}" -> [headline |-> "H", subtitle |-> "undefined"]

\* String#trim
trim(reply) ==
  CASE reply = " Texto. " -> "Texto."
    [] reply = "  " -> ""
    [] OTHER -> reply

\* A value of the service: a RewriteResult, a summary, a parsed headline, or nothing.
NoValue == [isNull |-> TRUE, text |-> "", model |-> "none", tokensUsed |-> 0, cost |-> 0,
            subtitle |-> "undefined"]

\* The RewriteResult of lines 862-869.
rewriteResult(text, model, tokens) ==
  [NoValue EXCEPT !.isNull = FALSE, !.text = text, !.model = model,
                  !.tokensUsed = tokens, !.cost = 0]

\* A summary string as a value.
stringValue(text) == [NoValue EXCEPT !.isNull = FALSE, !.text = text]

\* A parsed headline as a value.
headlineValue(parsed) ==
  [NoValue EXCEPT !.isNull = FALSE, !.text = parsed.headline, !.model = "object",
                  !.subtitle = parsed.subtitle]

\* `if (cached)`: null and the empty string are falsy, an object is truthy.
truthy(v) == ~v.isNull /\ (v.model # "none" \/ v.text # "")

\* cache.get(key) at time t: the value, unless it is absent or has expired.
cacheGet(store, key, t) ==
  IF key \in DOMAIN store /\ t <= store[key].expiry THEN store[key].value ELSE NoValue

\* The store after cache.get(key) at time t: an expired entry is deleted.
cacheAfterGet(store, key, t) ==
  IF key \in DOMAIN store /\ t > store[key].expiry
    THEN [x \in DOMAIN store \ {key} |-> store[x]]
    ELSE store

\* cache.set(key, value, ttl) at time t.
cacheSet(store, key, value, ttl, t) == MapSet(store, key, [value |-> value, expiry |-> t + ttl])

\* A service call that has not been made.
NoSvcCall == [kind |-> "none", title |-> <<>>, content |-> <<>>, targetLength |-> 0,
              model |-> "none", pc |-> "idle", llm |-> 0, startedAt |-> 0, setAt |-> 0,
              sawDone |-> {}, reply |-> "none", outcome |-> "none",
              result |-> NoValue, tracked |-> 0]

SvcAtRest ==
  /\ svc = [k \in SvcIds |-> NoSvcCall]
  /\ svcStarted = 0
  /\ svcNow = 0
  /\ cacheStore = <<>>

\* The service calls that have returned a result of their own.
SvcReturned == {e \in SvcIds : svc[e].outcome = "returned"}

\* Half an hour passes.
SvcTick ==
  /\ svcNow < MaxSvcTicks * HalfTtlMs
  /\ svcNow' = svcNow + HalfTtlMs
  /\ UNCHANGED <<svc, svcStarted, cacheStore>>
  /\ UNCHANGED notSvc

\* A call that looks in the cache under key first: the cached value is returned, or
\* the request is built and this.client.chat(request) is awaited.
CachedCall(k, fresh, key) ==
  LET cached == cacheGet(cacheStore, key, svcNow)
      begun == [fresh EXCEPT !.startedAt = svcNow, !.sawDone = SvcReturned]
  IN  /\ k = svcStarted + 1
      /\ svcStarted' = k
      /\ cacheStore' = cacheAfterGet(cacheStore, key, svcNow)
      /\ svc' = [svc EXCEPT ![k] =
                   IF truthy(cached)
                     THEN [begun EXCEPT !.pc = "done", !.outcome = "hit", !.result = cached]
                     ELSE [begun EXCEPT !.pc = "awaitChat", !.llm = 1]]
      /\ UNCHANGED svcNow
      /\ UNCHANGED notSvc

\* rewriteNewsArticle(title, content, options) is called.
RewriteCall(k, title, content, m) ==
  /\ m \in ReqModels
  /\ CachedCall(k, [NoSvcCall EXCEPT !.kind = "rewrite", !.title = title,
                                     !.content = content, !.model = m],
                rewriteKey(title, content))

\* summarizeArticle(content, targetLength) is called.
SummarizeCall(k, content, targetLength) ==
  /\ targetLength \in TargetLengths
  /\ CachedCall(k, [NoSvcCall EXCEPT !.kind = "summary", !.content = content,
                                     !.targetLength = targetLength,
                                     !.model = "zhipu/glm-4.5"],
                summaryKey(content, targetLength))

\* generateHeadline(content, options) is called: no cache, the request is sent.
HeadlineCall(k, content) ==
  /\ k = svcStarted + 1
  /\ svcStarted' = k
  /\ svc' = [svc EXCEPT ![k] =
               [NoSvcCall EXCEPT !.kind = "headline", !.content = content,
                                 !.model = "meta-llama/llama-4-maverick",
                                 !.startedAt = svcNow, !.sawDone = SvcReturned,
                                 !.pc = "awaitChat", !.llm = 1]]
  /\ UNCHANGED <<svcNow, cacheStore>>
  /\ UNCHANGED notSvc

\* What chat() passed to recordUsage for a response with usage u to a request for model m.
trackedCost(m, u) ==
  IF u.present THEN calculateCost(m, u.prompt_tokens, u.completion_tokens) ELSE 0

\* this.client.chat(request) returns a response: the call goes on to its end.
SvcChatReturns(k, reply, u) ==
  /\ svc[k].pc = "awaitChat"
  /\ u \in Usages
  /\ reply \in IF svc[k].kind = "headline" THEN HeadlineReplies ELSE TextReplies
  /\ LET got == [svc[k] EXCEPT !.pc = "done", !.reply = reply,
                               !.tracked = trackedCost(svc[k].model, u)]
     IN  CASE svc[k].kind = "rewrite" ->
                IF ~u.present
                  THEN \* response.usage.total_tokens of an undefined usage: TypeError
                       /\ svc' = [svc EXCEPT ![k] = [got EXCEPT !.outcome = "raised"]]
                       /\ UNCHANGED cacheStore
                  ELSE LET result == rewriteResult(reply, svc[k].model, u.total_tokens)
                       IN  /\ cacheStore' = cacheSet(cacheStore,
                                                     rewriteKey(svc[k].title, svc[k].content),
                                                     result, CacheTtlMs, svcNow)
                           /\ svc' = [svc EXCEPT ![k] =
                                        [got EXCEPT !.outcome = "returned",
                                                    !.result = result, !.setAt = svcNow]]
            [] svc[k].kind = "summary" ->
                LET summary == stringValue(trim(reply))
                IN  /\ cacheStore' = cacheSet(cacheStore,
                                              summaryKey(svc[k].content, svc[k].targetLength),
                                              summary, CacheTtlMs, svcNow)
                    /\ svc' = [svc EXCEPT ![k] =
                                 [got EXCEPT !.outcome = "returned", !.result = summary,
                                             !.setAt = svcNow]]
            [] svc[k].kind = "headline" ->
                /\ svc' = [svc EXCEPT ![k] =
                             IF isValidJson(reply)
                               THEN [got EXCEPT !.outcome = "returned",
                                                !.result = headlineValue(jsonParse(reply))]
                               ELSE \* JSON.parse throws a SyntaxError
                                    [got EXCEPT !.outcome = "raised"]]
                /\ UNCHANGED cacheStore
  /\ UNCHANGED <<svcStarted, svcNow>>
  /\ UNCHANGED notSvc

\* this.client.chat(request) raises: the error leaves the service call.
SvcChatRaises(k) ==
  /\ svc[k].pc = "awaitChat"
  /\ svc' = [svc EXCEPT ![k] = [svc[k] EXCEPT !.pc = "done", !.outcome = "raised"]]
  /\ UNCHANGED <<svcStarted, svcNow, cacheStore>>
  /\ UNCHANGED notSvc

\* rewriteNoticia, lines 189-197: the cost of job.result is rewriteResult.cost.
jobResultCost(result) == result.cost

NextSvc ==
  \/ SvcTick
  \/ \E k \in SvcIds, title \in SvcTitles, content \in SvcContents, m \in ReqModels :
       RewriteCall(k, title, content, m)
  \/ \E k \in SvcIds, content \in SvcContents, n \in TargetLengths :
       SummarizeCall(k, content, n)
  \/ \E k \in SvcIds, content \in SvcContents : HeadlineCall(k, content)
  \/ \E k \in SvcIds, reply \in HeadlineReplies \cup TextReplies, u \in Usages :
       SvcChatReturns(k, reply, u)
  \/ \E k \in SvcIds : SvcChatRaises(k)

\* ================================================ scraper/entrypoint.sh
\* An environment variable is unset, set to the empty string, or set to a value.
CredentialValues == {"unset", "", "value"}
FlagValues == {"unset", "", "true", "false", "TRUE"}
IntervalValues == {"unset", "43200", "12h"}

BootEnvs == [SUPABASE_URL : CredentialValues, SUPABASE_KEY : CredentialValues,
             OPENROUTER_API_KEY : CredentialValues, LLM_REWRITE_ENABLED : FlagValues,
             SCRAPE_INTERVAL : IntervalValues]

\* [ -z "$VAR" ]
isEmpty(v) == v \in {"unset", ""}

\* ${VAR:-default}
orDefault(v, default) == IF isEmpty(v) THEN default ELSE v

\* $(( ${SCRAPE_INTERVAL:-43200} / 3600 )) can be evaluated.
arithmeticOk(v) == orDefault(v, "43200") # "12h"

\* The container is started with some environment.
InitBoot ==
  /\ bootEnv \in BootEnvs
  /\ bootPc = "validateUrl"
  /\ exitCode = 0
  /\ llmExport = "asGiven"

\* A container started with every variable set.
BootAtRest ==
  /\ bootEnv = [SUPABASE_URL |-> "value", SUPABASE_KEY |-> "value",
                OPENROUTER_API_KEY |-> "value", LLM_REWRITE_ENABLED |-> "true",
                SCRAPE_INTERVAL |-> "43200"]
  /\ bootPc = "validateUrl"
  /\ exitCode = 0
  /\ llmExport = "asGiven"

\* exit 1
exitWith(code) ==
  /\ bootPc' = "exited"
  /\ exitCode' = code
  /\ UNCHANGED <<bootEnv, llmExport>>

\* The script goes on to the step pc.
goOn(pc) ==
  /\ bootPc' = pc
  /\ UNCHANGED <<bootEnv, exitCode, llmExport>>

\* Lines 21-24.
ValidateSupabaseUrl ==
  /\ bootPc = "validateUrl"
  /\ IF isEmpty(bootEnv.SUPABASE_URL) THEN exitWith(1) ELSE goOn("validateKey")
  /\ UNCHANGED notBoot

\* Lines 26-29.
ValidateSupabaseKey ==
  /\ bootPc = "validateKey"
  /\ IF isEmpty(bootEnv.SUPABASE_KEY) THEN exitWith(1) ELSE goOn("checkLlm")
  /\ UNCHANGED notBoot

\* Lines 34-45: without the API key LLM rewriting is switched off and the script goes on.
CheckLlmConfig ==
  /\ bootPc = "checkLlm"
  /\ bootPc' = "display"
  /\ llmExport' = IF /\ orDefault(bootEnv.LLM_REWRITE_ENABLED, "true") = "true"
                     /\ isEmpty(bootEnv.OPENROUTER_API_KEY)
                    THEN "false"
                    ELSE llmExport
  /\ UNCHANGED <<bootEnv, exitCode>>
  /\ UNCHANGED notBoot

\* Lines 47-62: the configuration is printed (set -e ends the script when the
\* arithmetic on SCRAPE_INTERVAL fails) and the directories are created.
DisplayConfig ==
  /\ bootPc = "display"
  /\ IF arithmeticOk(bootEnv.SCRAPE_INTERVAL) THEN goOn("playwright") ELSE exitWith(1)
  /\ UNCHANGED notBoot

\* Lines 64-72: the browser check; a failed check or install does not end the script.
VerifyPlaywright(ready) ==
  /\ bootPc = "playwright"
  /\ ready \in BOOLEAN
  /\ goOn(IF ready THEN "exec" ELSE "execAfterInstall")
  /\ UNCHANGED notBoot

\* Line 81: exec "$@", the scraper starts its pipeline work.
ExecApp ==
  /\ bootPc \in {"exec", "execAfterInstall"}
  /\ goOn("appRunning")
  /\ UNCHANGED notBoot

NextBoot ==
  \/ ValidateSupabaseUrl
  \/ ValidateSupabaseKey
  \/ CheckLlmConfig
  \/ DisplayConfig
  \/ \E ready \in BOOLEAN : VerifyPlaywright(ready)
  \/ ExecApp

\* ========================================================= specifications
\* The client before any chat() call, for the behaviours that do not call it.
ChatAtRest ==
  /\ InitChat
  /\ maxRetries = DefaultMaxRetries

Init ==
  /\ InitChat /\ JobsAtRest /\ StoreAtRest /\ PipeAtRest /\ SvcAtRest /\ BootAtRest
  /\ ViewsAtRest /\ PCacheAtRest

Next == NextChat

Spec == Init /\ [][Next]_vars

InitJobs ==
  /\ ChatAtRest /\ JobsAtRest /\ StoreAtRest /\ PipeAtRest /\ SvcAtRest /\ BootAtRest
  /\ ViewsAtRest /\ PCacheAtRest

SpecJobs == InitJobs /\ [][NextJobs]_vars

\* Every awaited call of rewriteNoticia returns or raises, and the microtask that
\* resumes processQueue runs.
SpecJobsFair ==
  /\ SpecJobs
  /\ WF_vars(QueueLoopResume)
  /\ \A j \in JobIds :
       /\ WF_vars(\E found \in BOOLEAN : FetchDone(j, found))
       /\ WF_vars(\E ok \in BOOLEAN : RewriteDone(j, ok))
       /\ WF_vars(\E ok \in BOOLEAN : HeadlineDone(j, ok))
       /\ WF_vars(\E ok \in BOOLEAN : UpdateDone(j, ok))

SpecStore == InitJobs /\ [][NextStore]_vars

SpecPipeline == InitJobs /\ [][NextPipe]_vars

SpecService == InitJobs /\ [][NextSvc]_vars

InitEntrypoint ==
  /\ ChatAtRest /\ JobsAtRest /\ StoreAtRest /\ PipeAtRest /\ SvcAtRest /\ InitBoot
  /\ ViewsAtRest /\ PCacheAtRest

SpecEntrypoint == InitEntrypoint /\ [][NextBoot]_vars

InitViews ==
  /\ ChatAtRest /\ JobsAtRest /\ StoreAtRest /\ PipeAtRest /\ SvcAtRest /\ BootAtRest
  /\ \E v \in 0..MaxInitialViews : ViewsFrom(v)
  /\ PCacheAtRest

SpecViews == InitViews /\ [][NextViews]_vars

SpecCache == InitJobs /\ [][NextPCache]_vars

\* ================================================= properties of chat()
\* C1: with requestsPerMinute = R, at most R provider requests are started within
\* any 60-second sliding window, however many chat() callers share the limiter.
\* (sentWindow holds the requests started in the 60 s up to the latest one.)
C1_SlidingWindowBound == Len(sentWindow) <= RequestsPerMinute

\* C2: a chat() call whose attempts fail with 5xx responses or timeouts sends at most
\* maxRetries requests; after the maxRetries-th such failure it raises and sends nothing more.
C2_RetryBound ==
  \A c \in Callers :
    hist[c].transient =>
      /\ hist[c].sent <= maxRetries
      /\ (hist[c].sent = maxRetries /\ hist[c].lastOutcome \in {"http5xx", "timeout"})
           => (call[c].pc = "idle" /\ hist[c].result = "raised")

\* A call that exhausted its retries, all on 5xx responses or timeouts, and raised.
C2_Witness ==
  \E c \in Callers :
    /\ maxRetries >= 2
    /\ hist[c].transient
    /\ hist[c].sent = maxRetries
    /\ hist[c].lastOutcome = "timeout"
    /\ hist[c].result = "raised"

\* C3: after an HTTP 429 or 402 response chat() raises at once: no backoff sleep,
\* no further request, whatever the attempt number and maxRetries.
C3_NoRetryOn429Or402 ==
  \A c \in Callers :
    hist[c].lastOutcome \in {"http429", "http402"} =>
      (call[c].pc = "idle" /\ hist[c].result = "raised")

\* C6: on one local date with daily ceiling D, no provider request is started once D
\* requests have been started that day.
C6_DailyCeiling == sentToday <= RequestsPerDay

\* C9: recordRequest() is called exactly once for every provider request sent, so a
\* finished chat() call has recorded as many requests as it sent.
C9_RecordPerRequest ==
  \A c \in Callers :
    hist[c].result \in {"returned", "raised"} => hist[c].recorded = hist[c].sent

\* C10: checkLimit() has returned before the call's first request is sent;
\* recordRequest() and recordUsage() run only after a successful response, and a
\* chat() call that raises runs neither.
C10_CallOrder ==
  \A c \in Callers :
    /\ hist[c].sent > 0 => hist[c].checked
    /\ (hist[c].recorded > 0 \/ hist[c].usage > 0)
         => (hist[c].lastOutcome = "ok" /\ hist[c].result = "returned")
    /\ hist[c].result \in {"raised", "raisedDaily"}
         => (hist[c].recorded = 0 /\ hist[c].usage = 0)

\* One call raised after sending requests while another returned and was recorded.
C10_Witness ==
  \E c, d \in Callers :
    /\ hist[c].result = "raised"
    /\ hist[c].sent >= 2
    /\ hist[d].result = "returned"
    /\ hist[d].recorded = 1
    /\ hist[d].usage = 1

\* C11: when the provider answers 500 on exactly the first maxRetries - 1 attempts of a
\* chat() call and succeeds on the next, chat() returns that response, having sent
\* exactly maxRetries requests; none of the earlier 500s makes it raise.
C11_SucceedsOnLastAttempt ==
  \A c \in Callers :
    hist[c].only5xx =>
      /\ (hist[c].lastOutcome = "http5xx" /\ hist[c].sent < maxRetries)
           => (call[c].pc = "backoff" /\ hist[c].result = "none")
      /\ (hist[c].lastOutcome = "ok" /\ Len(hist[c].delays) = maxRetries - 1)
           => (hist[c].result = "returned" /\ hist[c].sent = maxRetries)

\* A call answered 500 on its first maxRetries - 1 attempts that returned on the last.
C11_Witness ==
  \E c \in Callers :
    /\ maxRetries >= 2
    /\ hist[c].only5xx
    /\ Len(hist[c].delays) = maxRetries - 1
    /\ hist[c].lastOutcome = "ok"
    /\ hist[c].result = "returned"
    /\ hist[c].sent = maxRetries

\* The sum of calculateCost over the calls of S whose response carried token usage.
RECURSIVE perCallCostSum(_)
perCallCostSum(S) ==
  IF S = {} THEN 0
  ELSE LET c == CHOOSE x \in S : TRUE
           own == IF hist[c].usageSeen.present
                    THEN calculateCost(hist[c].usageModel,
                                       hist[c].usageSeen.prompt_tokens,
                                       hist[c].usageSeen.completion_tokens)
                    ELSE 0
       IN  own + perCallCostSum(S \ {c})

\* C13: the cost tracker's total cost equals the sum of calculateCost(model,
\* promptTokens, completionTokens) over exactly the successful chat() calls whose
\* response carried token usage; failed calls contribute nothing.
C13_TotalCostIsSumOfCalls == getTotalCost(costs) = perCallCostSum(Callers)

\* Two successful calls with token usage for the same model, and a failed call or none.
C13_Witness ==
  \E c, d \in Callers :
    /\ c # d
    /\ hist[c].usageSeen.present
    /\ hist[d].usageSeen.present
    /\ hist[c].usageModel = hist[d].usageModel
    /\ getTotalCost(costs) > 0

\* C14: the cost tracker's per-model and total cost and token totals never decrease
\* and are never reset, whatever chat() calls are made.
C14_TotalsNeverDecrease ==
  [][/\ DOMAIN costs \subseteq DOMAIN costs'
     /\ DOMAIN tokenUsage \subseteq DOMAIN tokenUsage'
     /\ \A m \in DOMAIN costs : costs'[m] >= costs[m]
     /\ \A m \in DOMAIN tokenUsage : tokenUsage'[m] >= tokenUsage[m]
     /\ getTotalCost(costs') >= getTotalCost(costs)]_vars

\* Usage was recorded for two different models, one after the other.
C14_Witness ==
  /\ Cardinality(DOMAIN costs) = 2
  /\ \A m \in DOMAIN costs : costs[m] > 0 /\ tokenUsage[m] > 0

\* C19: the retries of one chat() call only send the same request again: checkLimit()
\* runs once, recordRequest() and recordUsage() run at most once per call whatever the
\* number of attempts, and every attempt carries the same request.
C19_RetriesOnlyResend ==
  \A c \in Callers :
    /\ hist[c].checks <= 1
    /\ hist[c].sent > 0 => hist[c].checks = 1
    /\ hist[c].recorded <= 1
    /\ hist[c].usage <= 1
    /\ Cardinality(hist[c].payloads) <= 1

\* A call that sent three requests and returned, recorded once.
C19_Witness ==
  \E c \in Callers :
    /\ hist[c].sent = 3
    /\ hist[c].result = "returned"
    /\ hist[c].checks = 1
    /\ hist[c].recorded = 1
    /\ hist[c].usage = 1

\* C20: within one chat() call the delay slept before each retry is exactly double
\* the delay slept before the previous retry, so the delays strictly increase.
C20_BackoffDoubles ==
  \A c \in Callers :
    \A i \in 2..Len(hist[c].delays) :
      /\ hist[c].delays[i] = 2 * hist[c].delays[i - 1]
      /\ hist[c].delays[i] > hist[c].delays[i - 1]

\* A call that slept twice, 2000 ms and then 4000 ms.
C20_Witness ==
  \E c \in Callers : hist[c].delays = <<2 * BackoffBaseMs, 4 * BackoffBaseMs>>

\* C21: when checkLimit() finds requestsPerMinute recorded timestamps younger than
\* 60 s it suspends, once, for exactly 60000 - (now - oldest) ms, a value in
\* (0, 60000]; it then returns without checking again, and when it returns the
\* oldest of those timestamps is no longer younger than 60 s.
C21_SleepsUntilOldestExpires ==
  [][\A c \in Callers :
       LET recent == {x \in {requestTimestamps[i] : i \in DOMAIN requestTimestamps} :
                        now - x < WindowMs}
           found == Len(SelectSeq(requestTimestamps, LAMBDA x : now - x < WindowMs))
                      >= RequestsPerMinute
       IN  /\ (callsStarted' = c /\ callsStarted = c - 1 /\ found
                 /\ hist'[c].result # "raisedDaily")
                => /\ call'[c].pc = "limitWait"
                   /\ hist'[c].oldest = SetMin(recent)
                   /\ call'[c].wakeAt - now = WindowMs - (now - SetMin(recent))
                   /\ call'[c].wakeAt - now > 0
                   /\ call'[c].wakeAt - now <= WindowMs
           /\ (call[c].pc = "limitWait" /\ call'[c] # call[c])
                => /\ call'[c].pc = "checked"
                   /\ hist'[c].checks = 1
                   /\ now = call[c].wakeAt
                   /\ ~(now - hist[c].oldest < WindowMs)]_vars

\* A checkLimit() that slept on a saturated window has returned.
C21_Witness ==
  \E c \in Callers : hist[c].oldest > 0 /\ hist[c].checks = 1 /\ hist[c].checked

\* C22: for a model that is not in the pricing table, calculateCost returns a cost
\* at a default rate that is conservative: for the token counts of every recorded
\* response it is at least the cost that any listed model yields for those counts.
C22_DefaultRateConservative ==
  \A c \in Callers :
    (hist[c].usageSeen.present /\ hist[c].usageModel \notin DOMAIN MODEL_COSTS)
      => \A m \in DOMAIN MODEL_COSTS :
           calculateCost(hist[c].usageModel, hist[c].usageSeen.prompt_tokens,
                         hist[c].usageSeen.completion_tokens)
             >= calculateCost(m, hist[c].usageSeen.prompt_tokens,
                              hist[c].usageSeen.completion_tokens)

\* ============================================ properties of the rewrite jobs
\* C4: in every state of every RewriteJob, as held by rewriteNoticia and as stored in
\* the job queue, result is populated if and only if status = completed; a job that
\* ends failed has no result.
C4_ResultIffCompleted ==
  \A j \in JobIds :
    /\ rpc[j] # "notCalled"
         => (held[j].hasResult <=> held[j].status = "completed")
    /\ entryKind[j] # "absent"
         => (getJob(held, entryKind, entryCopy, j).hasResult
               <=> getJob(held, entryKind, entryCopy, j).status = "completed")

\* How far along its lifecycle a status is.
statusRank(st) ==
  CASE st = "pending" -> 0
    [] st = "processing" -> 1
    [] OTHER -> 2

\* C12: the status of a RewriteJob, as the job queue shows it, only moves forward along
\* pending -> processing -> (completed | failed): it never goes back, and once
\* completed or failed it never changes, whatever the interleaving of addJob calls
\* and the queue loop.
C12_StatusOnlyForward ==
  [][\A j \in JobIds :
       entryKind[j] # "absent" =>
         /\ entryKind'[j] # "absent"
         /\ statusRank(getJob(held', entryKind', entryCopy', j).status)
              >= statusRank(getJob(held, entryKind, entryCopy, j).status)
         /\ getJob(held, entryKind, entryCopy, j).status \in {"completed", "failed"}
              => getJob(held', entryKind', entryCopy', j).status
                   = getJob(held, entryKind, entryCopy, j).status]_vars

\* The queue shows one job that completed and one that failed.
C12_Witness ==
  \E j, k \in JobIds :
    /\ entryKind[j] # "absent"
    /\ entryKind[k] # "absent"
    /\ getJob(held, entryKind, entryCopy, j).status = "completed"
    /\ getJob(held, entryKind, entryCopy, k).status = "failed"

\* C8: in a batch rewrite the failure of one article's rewrite never makes the batch
\* call fail: the call returns the list of jobs, each of them completed or failed.
C8_BatchReturnsAllJobs ==
  /\ batchPc # "rejected"
  /\ batchPc = "returned"
       => \A j \in batchJobs : held[j].status \in {"completed", "failed"}

\* C26: for any interleaving of addJob calls at most one processQueue loop is active
\* at a time; the processing flag is set exactly while a loop is active; and when
\* no loop is active no job stored in the queue has status pending, so a job added
\* while the loop was running has not been missed.
C26_OneLoopNoPendingLeft ==
  /\ loopAwaiting <= 1
  /\ processing = (loopAwaiting = 1)
  /\ (loopAwaiting = 0) => (PendingIds(held, entryKind, entryCopy) = {})

\* A batch added two jobs in one go, the second while the loop started by the first
\* was suspended; the loop has picked up both and has exited.
C26_Witness ==
  /\ batchJobs = {1, 2}
  /\ loopAwaiting = 0
  /\ ~processing
  /\ \A j \in batchJobs : entryKind[j] # "absent"

\* C27: every job created by rewriteNoticia eventually has status completed or
\* failed, with completedAt set, both as rewriteNoticia holds it and as the queue
\* stores it, whatever the outcomes of the fetch, the LLM calls and the update.
C27_JobEventuallySettles ==
  \A j \in JobIds :
    (rpc[j] # "notCalled")
      ~> /\ held[j].status \in {"completed", "failed"}
         /\ held[j].hasCompletedAt
         /\ getJob(held, entryKind, entryCopy, j).status \in {"completed", "failed"}
         /\ getJob(held, entryKind, entryCopy, j).hasCompletedAt

\* One job has completed after updating the original, another has failed.
C27_Witness ==
  \E i \in JobIds, j \in JobIds :
    /\ rpc[i] = "returned" /\ jobConfig[i].updateOriginal
    /\ held[i].status = "completed" /\ held[i].hasCompletedAt
    /\ rpc[j] = "raised"
    /\ held[j].status = "failed" /\ held[j].hasCompletedAt

\* ======================================= properties of the rewriting service
\* C15: generateHeadline never raises because of the shape of the model's reply: a
\* reply that is not valid JSON is returned whole as the headline, with no subtitle.
C15_HeadlineFallback ==
  \A k \in SvcIds :
    (svc[k].kind = "headline" /\ svc[k].reply # "none") =>
      /\ svc[k].outcome = "returned"
      /\ ~isValidJson(svc[k].reply)
           => (svc[k].result.text = svc[k].reply /\ svc[k].result.subtitle = "undefined")

\* Call k was made with the title and body of call e, which had returned before.
SameInputAfter(e, k) ==
  /\ e \in svc[k].sawDone
  /\ svc[e].kind \in {"rewrite", "summary"}
  /\ svc[k].kind = svc[e].kind
  /\ svc[k].title = svc[e].title
  /\ svc[k].content = svc[e].content

\* C16: a rewrite or summarize call with the title and body of an earlier completed
\* call, made within the hour of its caching, returns the cached result and issues no
\* LLM request; made after the hour has elapsed, it goes to the LLM again.
C16_CacheWithinTtl ==
  \A e, k \in SvcIds :
    SameInputAfter(e, k) =>
      /\ svc[k].startedAt - svc[e].setAt < CacheTtlMs
           => (svc[k].outcome = "hit" /\ svc[k].llm = 0 /\ svc[k].result = svc[e].result)
      /\ svc[k].startedAt - svc[e].setAt > CacheTtlMs => svc[k].llm = 1

\* C28: the result returned by rewriteNewsArticle was produced for the current call's
\* inputs: a call that returns a cached result was made with the same title, the
\* same body and the same options (here the model) as an earlier call that
\* produced that result.
C28_CachedResultIsForSameInputs ==
  \A k \in SvcIds :
    (svc[k].kind = "rewrite" /\ svc[k].outcome = "hit") =>
      \E e \in svc[k].sawDone :
        /\ svc[e].kind = "rewrite"
        /\ svc[e].result = svc[k].result
        /\ svc[e].title = svc[k].title
        /\ svc[e].content = svc[k].content
        /\ svc[e].model = svc[k].model

\* C17: the cost in a RewriteJob's result equals the cost the Cost Tracker computed,
\* calculateCost on the response's token usage, for the LLM call that produced it.
C17_JobCostIsTrackedCost ==
  \A k \in SvcIds :
    (svc[k].kind = "rewrite" /\ svc[k].outcome = "returned") =>
      jobResultCost(svc[k].result) = svc[k].tracked

\* ============================================ properties of the entrypoint
\* A required credential is missing from the environment the process started with.
CredentialMissing ==
  \/ isEmpty(bootEnv.SUPABASE_URL)
  \/ isEmpty(bootEnv.SUPABASE_KEY)
  \/ /\ orDefault(bootEnv.LLM_REWRITE_ENABLED, "true") = "true"
     /\ isEmpty(bootEnv.OPENROUTER_API_KEY)

\* C18: when a required credential (store URL, store key, or the LLM API key while LLM
\* rewriting is enabled) is missing at process start, the process ends with a failure
\* before any pipeline work begins; it never goes on partially configured.
C18_MissingCredentialIsFatal ==
  CredentialMissing =>
    /\ bootPc \notin {"display", "playwright", "exec", "execAfterInstall", "appRunning"}
    /\ bootPc = "exited" => exitCode # 0

\* ================================================ properties of the store
\* C5: after any sequence of article creations the store holds at most one Article
\* per sourceURL: a repeated submission never inserts a second row.
C5_OneRowPerSourceUrl ==
  \A i, k \in DOMAIN rows :
    (i # k /\ rows[i].source_url # "null") => rows[i].source_url # rows[k].source_url

\* ============================================= properties of the pipeline
\* The Articles persisted under source URL u.
ArticlesOf(u) == {a \in articles : a.url = u}

\* Source URL u came twice or more out of this cycle's scrape, was not persisted
\* when the Dedup Gate ran, and the gate has run.
DuplicateInCycle(u) ==
  /\ stage \in {"rewriting", "imaging", "uploading", "sweeping", "idle"}
  /\ CountUrl(scraped, u) >= 2
  /\ u \notin knownAtGate

firstScraped(u) == scraped[CHOOSE i \in DOMAIN scraped :
                             /\ scraped[i].url = u
                             /\ \A j \in 1..(i - 1) : scraped[j].url # u]

\* Source URL u passed this cycle's Dedup Gate and its rewrite, and the upload is done.
PassedToUpload(u) ==
  /\ stage = "sweeping"
  /\ CountUrl(scraped, u) >= 1
  /\ u \notin knownAtGate
  /\ u \notin rewriteFailed

\* C24: for every candidate that passes dedup and rewriting, an Article is persisted
\* whether or not its image validates: with the processed image when it does, with
\* the placeholder when image processing returned null; the candidate is never
\* dropped, and no Article carries any other image reference.
C24_ImageFailureNonBlocking ==
  /\ \A a \in articles : a.image \in {"processed", "placeholder"}
  /\ \A u \in CandUrls :
       PassedToUpload(u)
         => /\ Cardinality(ArticlesOf(u)) = 1
            /\ \A a \in ArticlesOf(u) :
                 a.image = IF firstScraped(u).imageOk THEN "processed" ELSE "placeholder"

\* A candidate whose image did not validate has been persisted with the placeholder.
C24_Witness ==
  \E u \in CandUrls :
    /\ PassedToUpload(u)
    /\ ~firstScraped(u).imageOk
    /\ \E a \in ArticlesOf(u) : a.image = "placeholder"

\* C25: when the Sweeper has run with retention window RetentionDays, no Article
\* whose publish day is older than the window remains, and every Article whose
\* publish day is within the window is still there, unmodified.
C25_SweepRemovesOnlyExpired ==
  [][(stage = "sweeping" /\ stage' = "idle")
       => /\ \A a \in articles' : calendarDay - a.published <= RetentionDays
          /\ \A a \in articles :
               (calendarDay - a.published <= RetentionDays) => a \in articles'
          /\ articles' \subseteq articles]_vars

\* A sweep has removed an Article known to this cycle's Dedup Gate and has kept a
\* newer one.
C25_Witness ==
  /\ stage = "idle"
  /\ articles # {}
  /\ \E u \in knownAtGate : ArticlesOf(u) = {}

\* ============================================ properties of incrementViews
\* The incrementViews calls that have been made.
IncCalled == {c \in ViewCallers : inc[c].pc # "idle"}

\* C29: when N concurrent incrementViews(id) calls have all reported success, the
\* noticia's views counter is exactly N higher than before them, also when the
\* increment_views RPC failed and the read-then-update fallback ran.
C29_NoLostViewUpdate ==
  (\A c \in IncCalled : inc[c].pc = "success")
    => views = viewsAtStart + Cardinality(IncCalled)

\* ======================================= properties of the ProductionCache
\* C30: after any sequence of set/get/delete/cleanup operations the cache holds at
\* most maxSize entries, and an unexpired entry is removed only by delete or clear,
\* or as the least recently accessed entry by a set of a key that is not present
\* when the cache is full; a set of a key that is present evicts nothing.
C30_BoundedAndEvictsOnlyLRU ==
  [][/\ Len(pcache') <= PCacheMaxSize
     /\ \A i \in DOMAIN pcache :
          (~(pcNow > pcache[i].expiry) /\ pcache[i].key \notin pcKeys(pcache'))
            => \/ pcOp'.op = "delete" /\ pcOp'.key = pcache[i].key
               \/ pcOp'.op = "clear"
               \/ /\ pcOp'.op = "set"
                  /\ pcOp'.key \notin pcKeys(pcache)
                  /\ Len(pcache) + 1 > PCacheMaxSize
                  /\ \A j \in DOMAIN pcache :
                       pcache[j].lastAccess >= pcache[i].lastAccess]_vars

====
